---- MODULE Spec2Model ----
(***************************************************************************)
(* Emotion_Evaluator: the lexicon scorer (SimpleSentimentAnalyzer) and the *)
(* two HTTP handlers, app.py (routing, optional EmotionEvaluator, fallback *)
(* scorer) and analyze.py (baseline scorer only).                          *)
(*                                                                         *)
(* Representation.                                                         *)
(*  - A text is a sequence of pieces; a piece is a whitespace character    *)
(*    (" ", "\t") or a run of non-whitespace characters ("good",           *)
(*    "product,").  Adjacent non-whitespace pieces belong to one token.    *)
(*  - A confidence is an integer number of thousandths (0.5 is 500): the   *)
(*    scorer rounds to three decimals.  Unrounded quantities are compared  *)
(*    by cross-multiplication, so no precision is lost.                    *)
(*  - Emoji are written by code point ("U+1F60A").                         *)
(***************************************************************************)
EXTENDS Integers, Sequences, FiniteSets, TLC

\* ------------------------------------------------------------- bounds
\* Most positive-lexicon tokens, and most negative-lexicon tokens, in a generated text.
MaxHits == 1
\* Most non-lexicon tokens in a generated text (20 tokens put the score on 0.05).
MaxOther == 20
\* Concurrent requests in flight in SpecConc.
NumSlots == 2

\* ------------------------------------------------------------- lexicon
\* app.py, SimpleSentimentAnalyzer.__init__: positive_words
AppPositiveWords ==
  { "good", "great", "excellent", "amazing", "wonderful", "fantastic", "awesome",
    "love", "like", "enjoy", "happy", "pleased", "satisfied", "delighted",
    "perfect", "outstanding", "superb", "brilliant", "magnificent", "terrific",
    "best", "favorite", "recommend", "impressed", "beautiful", "nice", "positive",
    "fresh", "delicious", "tasty", "quality", "fast", "helpful", "incredible",
    "extraordinary", "remarkable", "spectacular", "marvelous", "phenomenal",
    "splendid" }

\* app.py, SimpleSentimentAnalyzer.__init__: negative_words
AppNegativeWords ==
  { "bad", "terrible", "awful", "horrible", "disgusting", "hate", "dislike",
    "disappointed", "unsatisfied", "unhappy", "angry", "frustrated", "annoyed",
    "worst", "poor", "cheap", "broken", "defective", "useless", "waste",
    "negative", "slow", "expensive", "rude", "dirty", "stale", "bland", "bitter",
    "sour", "wrong", "failed", "problem", "issue", "complaint", "disaster",
    "dreadful", "appalling", "atrocious", "deplorable", "detestable", "ghastly",
    "hideous", "loathsome", "miserable", "nasty", "revolting" }

\* analyze.py, SimpleSentimentAnalyzer.__init__: positive_words
AnalyzePositiveWords ==
  { "good", "great", "excellent", "amazing", "wonderful", "fantastic", "awesome",
    "love", "like", "enjoy", "happy", "pleased", "satisfied", "delighted",
    "perfect", "outstanding", "superb", "brilliant", "magnificent", "terrific",
    "best", "favorite", "recommend", "impressed", "beautiful", "nice", "positive",
    "fresh", "delicious", "tasty", "quality", "fast", "helpful", "incredible",
    "extraordinary" }

\* analyze.py, SimpleSentimentAnalyzer.__init__: negative_words
AnalyzeNegativeWords ==
  { "bad", "terrible", "awful", "horrible", "disgusting", "hate", "dislike",
    "disappointed", "unsatisfied", "unhappy", "angry", "frustrated", "annoyed",
    "worst", "poor", "cheap", "broken", "defective", "useless", "waste",
    "negative", "slow", "expensive", "rude", "dirty", "stale", "bland", "bitter",
    "sour", "wrong", "failed", "problem", "issue", "complaint", "disaster",
    "dreadful" }

\* SimpleSentimentAnalyzer() of app.py: the object built per request (app.py:307).
AppAnalyzerInit ==
  [positive_words |-> AppPositiveWords, negative_words |-> AppNegativeWords]

\* analyzer = SimpleSentimentAnalyzer() of analyze.py: the module-level object.
AnalyzerInit ==
  [positive_words |-> AnalyzePositiveWords, negative_words |-> AnalyzeNegativeWords]

\* ------------------------------------------------------------- strings
\* str.isspace on a piece.
Whitespace == {" ", "\t"}

\* str.lower on a piece: the upper-case pieces of the model's vocabulary.
LowerMap ==
  [x \in {"I", "This", "The", "GOOD", "Bad", "Negative", "POSITIVE"} |->
     CASE x = "I" -> "i"
       [] x = "This" -> "this"
       [] x = "The" -> "the"
       [] x = "GOOD" -> "good"
       [] x = "Bad" -> "bad"
       [] x = "Negative" -> "negative"
       [] x = "POSITIVE" -> "positive"]

Lower(s) == IF s \in DOMAIN LowerMap THEN LowerMap[s] ELSE s

\* text.lower()
LowerText(text) == [i \in 1..Len(text) |-> Lower(text[i])]

\* text.strip(): leading and trailing whitespace pieces removed.
RECURSIVE LStrip(_)
LStrip(text) ==
  IF text = <<>> THEN <<>>
  ELSE IF Head(text) \in Whitespace THEN LStrip(Tail(text)) ELSE text

RECURSIVE RStrip(_)
RStrip(text) ==
  IF text = <<>> THEN <<>>
  ELSE IF text[Len(text)] \in Whitespace THEN RStrip(SubSeq(text, 1, Len(text) - 1))
       ELSE text

Strip(text) == RStrip(LStrip(text))

\* `not text or not text.strip()`
IsBlank(text) == text = <<>> \/ Strip(text) = <<>>

\* text.split(): the maximal runs of non-whitespace, each run one token.
\* `cur` is the token being read ("" when none), `acc` the tokens read so far.
RECURSIVE SplitFrom(_, _, _)
SplitFrom(text, cur, acc) ==
  IF text = <<>> THEN (IF cur = "" THEN acc ELSE Append(acc, cur))
  ELSE IF Head(text) \in Whitespace
       THEN SplitFrom(Tail(text), "", IF cur = "" THEN acc ELSE Append(acc, cur))
       ELSE SplitFrom(Tail(text), cur \o Head(text), acc)

Split(text) == SplitFrom(text, "", <<>>)

\* len(text): the number of characters.
RECURSIVE TextLength(_)
TextLength(text) ==
  IF text = <<>> THEN 0 ELSE Len(Head(text)) + TextLength(Tail(text))

\* sum(1 for word in words if word in lexicon)
RECURSIVE CountIn(_, _)
CountIn(words, lexicon) ==
  IF words = <<>> THEN 0
  ELSE (IF Head(words) \in lexicon THEN 1 ELSE 0) + CountIn(Tail(words), lexicon)

Max(a, b) == IF a >= b THEN a ELSE b

\* ------------------------------------------------------------- scorer
\* sentiment_score = (positive_count - negative_count) / len(words), compared with
\* 0.05 and -0.05.  The quotient d/w and the literal 0.05 are both correctly rounded
\* doubles, so for w < 2^50 the comparison is that of the exact rationals:
\* d/w > 1/20 iff 20*d > w.
ScoreAbove(d, w) == 20 * d > w
ScoreBelow(d, w) == 20 * d < -w

\* Mutant of Classify: the thresholds taken inclusively.
ClassifyLe(d, w) ==
  IF 20 * d >= w THEN "positive"
  ELSE IF 20 * d <= -w THEN "negative" ELSE "neutral"

\* The label of the if/elif/else on sentiment_score.
Classify(d, w) ==
  IF ScoreAbove(d, w) THEN "positive"
  ELSE IF ScoreBelow(d, w) THEN "negative" ELSE "neutral"

\* message and emoji fixed by the branch taken.
MessageOf(sentiment) ==
  CASE sentiment = "positive" -> "Positive sentiment detected!"
    [] sentiment = "negative" -> "Negative sentiment detected!"
    [] OTHER -> "Neutral sentiment detected"

EmojiOf(sentiment) ==
  CASE sentiment = "positive" -> "U+1F60A"
    [] sentiment = "negative" -> "U+1F61E"
    [] OTHER -> "U+1F610"

\* round(x, 3) of x = t/w + 0.3 < 1, in thousandths.  1000*t/w is halfway between
\* two integers only for t/w an odd multiple of 1/16 (w < 2000); there the double
\* t/w + 0.3 lies below the tie for t/w < 0.2 (1/16, 3/16) and above it otherwise.
Round3(t, w) ==
  LET q == (1000 * t) \div w
      r == (1000 * t) % w
  IN  300 + (IF 2 * r > w THEN q + 1
             ELSE IF 2 * r < w THEN q
             ELSE IF 5 * t >= w THEN q + 1 ELSE q)

\* Mutant of Confidence: min(1.0, ...) left out.
ConfidenceNoClamp(t, w) == Round3(t, Max(1, w))

\* round(min(1.0, total_sentiment_words / max(1, len(words)) + 0.3), 3), in thousandths.
Confidence(t, w) ==
  IF 10 * t + 3 * Max(1, w) >= 10 * Max(1, w) THEN 1000 ELSE Round3(t, Max(1, w))

\* Mutant of Analyze: the early return for total_sentiment_words == 0 left out.
AnalyzeNoZeroBranch(self, text) ==
  IF IsBlank(text)
  THEN [sentiment |-> "neutral", confidence |-> 0, message |-> "Empty text",
        emoji |-> "U+1F610"]
  ELSE
    LET words == Split(LowerText(text))
        positive_count == CountIn(words, self.positive_words)
        negative_count == CountIn(words, self.negative_words)
        sentiment == Classify(positive_count - negative_count, Len(words))
    IN  [sentiment |-> sentiment,
         confidence |-> Confidence(positive_count + negative_count, Len(words)),
         message |-> MessageOf(sentiment),
         emoji |-> EmojiOf(sentiment),
         metadata |-> [text_length |-> TextLength(text),
                       word_count |-> Len(words),
                       positive_words |-> positive_count,
                       negative_words |-> negative_count,
                       timestamp |-> "now"]]

\* analyze.py, SimpleSentimentAnalyzer.analyze: the value returned.
Analyze(self, text) ==
  IF IsBlank(text)
  THEN [sentiment |-> "neutral", confidence |-> 0, message |-> "Empty text",
        emoji |-> "U+1F610"]
  ELSE
    LET words == Split(LowerText(text))
        positive_count == CountIn(words, self.positive_words)
        negative_count == CountIn(words, self.negative_words)
        total_sentiment_words == positive_count + negative_count
    IN  IF total_sentiment_words = 0
        THEN [sentiment |-> "neutral", confidence |-> 500,
              message |-> "Neutral sentiment detected", emoji |-> "U+1F610"]
        ELSE
          LET sentiment == Classify(positive_count - negative_count, Len(words))
          IN  [sentiment |-> sentiment,
               confidence |-> Confidence(total_sentiment_words, Len(words)),
               message |-> MessageOf(sentiment),
               emoji |-> EmojiOf(sentiment),
               metadata |-> [text_length |-> TextLength(text),
                             word_count |-> Len(words),
                             positive_words |-> positive_count,
                             negative_words |-> negative_count,
                             timestamp |-> "now"]]

\* app.py, SimpleSentimentAnalyzer.analyze_text: the value returned.
AnalyzeText(self, text) ==
  IF IsBlank(text)
  THEN [sentiment |-> "neutral", confidence |-> 0, message |-> "Empty text provided",
        emoji |-> "U+1F610"]
  ELSE
    LET words == Split(LowerText(text))
        positive_count == CountIn(words, self.positive_words)
        negative_count == CountIn(words, self.negative_words)
        total_sentiment_words == positive_count + negative_count
    IN  IF total_sentiment_words = 0
        THEN [sentiment |-> "neutral", confidence |-> 500,
              message |-> "Neutral sentiment detected", emoji |-> "U+1F610"]
        ELSE
          LET sentiment == Classify(positive_count - negative_count, Len(words))
              confidence == Confidence(total_sentiment_words, Len(words))
          IN  [sentiment |-> sentiment,
               confidence |-> confidence,
               message |-> MessageOf(sentiment),
               emoji |-> EmojiOf(sentiment),
               scores |-> [confidence |-> confidence,
                           confidence_percentage |-> confidence],
               metadata |-> [text_length |-> TextLength(text),
                             word_count |-> Len(words),
                             analysis_timestamp |-> "now",
                             api_version |-> "1.0",
                             method |-> "SimpleFallback"]]

\* ------------------------------------------------------------- inputs
RECURSIVE Rep(_, _)
Rep(w, k) == IF k = 0 THEN <<>> ELSE <<w>> \o Rep(w, k - 1)

\* The text whose tokens are ws, separated by single spaces.
RECURSIVE Join(_)
Join(ws) ==
  IF ws = <<>> THEN <<>>
  ELSE IF Len(ws) = 1 THEN <<ws[1]>> ELSE <<ws[1], " ">> \o Join(Tail(ws))

\* p tokens of the positive lexicon, n of the negative one, o of neither.
MkText(p, n, o) == Join(Rep("good", p) \o Rep("bad", n) \o Rep("sky", o))

FamilyTexts ==
  { MkText(p, n, o) : p \in 0..MaxHits, n \in 0..MaxHits, o \in 0..MaxOther } \ {<<>>}

TextLove ==
  Join(<<"I", "love", "this", "product,", "it", "is", "amazing", "and", "wonderful">>)
TextWorst ==
  Join(<<"This", "is", "the", "worst,", "terrible,", "broken", "product">>)
TextSky == Join(<<"The", "sky", "is", "blue", "today">>)

ScenarioTexts ==
  { TextLove, TextWorst, TextSky,
    <<" ", "GOOD", "\t", " ", "Bad", " ", "sky", " ">>,
    <<"good", "bad">>,
    <<"a", " ", "remarkable", " ", "day">> }

BlankTexts == { <<>>, <<" ", "\t">> }

Texts == FamilyTexts \cup ScenarioTexts \cup BlankTexts

\* A request body: what Content-Length says and what the bytes hold.  `text` is the
\* content of a JSON string, the items of a JSON array of strings, or the value of
\* the "text" key of a JSON object.
Body(kind, text) == [kind |-> kind, text |-> text]

NoBody == Body("absent", <<>>)

OtherBodies ==
  { Body(k, <<>>) : k \in {"absent", "badlength", "undecodable", "notjson", "num",
                           "null", "bool", "arr", "obj_empty", "obj_other",
                           "obj_text_num", "obj_text_null"} }
  \cup { Body("str", <<"hello">>), Body("str", <<"some", " ", "text">>),
         Body("arr", <<"text">>) }

TextBodies == { Body("obj_text_str", t) : t \in Texts }

Bodies == OtherBodies \cup TextBodies

Files == {"app", "analyze"}
Paths == {"/analyze", "/api/analyze?v=1", "/health", "/api/health", "/other"}

Request(file, method, path, body) ==
  [file |-> file, method |-> method, path |-> path, body |-> body]

Requests ==
  { Request(f, "POST", p, b) : f \in Files, p \in Paths, b \in Bodies }
  \cup { Request(f, m, p, NoBody) : f \in Files, m \in {"GET", "OPTIONS", "PUT"},
                                    p \in Paths }

\* ------------------------------------------------------------- request parsing
\* self.path.split("?")[0]
PathOnly(path) == IF path = "/api/analyze?v=1" THEN "/api/analyze" ELSE path

AnalyzePaths == {"/api/analyze", "/analyze"}
HealthPaths == {"/api/health", "/health"}

\* `"text" in data` for the value json.loads returned: key lookup on a dict, item
\* lookup on a list, substring test on a str, TypeError on a number, bool or None.
HasText(body) ==
  CASE body.kind \in {"num", "null", "bool"} -> "TypeError"
    [] body.kind \in {"str", "arr"} ->
         IF \E i \in 1..Len(body.text) : body.text[i] = "text" THEN "yes" ELSE "no"
    [] body.kind \in {"obj_text_num", "obj_text_null", "obj_text_str"} -> "yes"
    [] OTHER -> "no"

\* The error messages of the two handlers.
Msg(file, check) ==
  CASE check = "nodata" -> "No data provided"
    [] check = "json" -> IF file = "app" THEN "Invalid JSON format" ELSE "Invalid JSON"
    [] check = "missing" ->
         IF file = "app" THEN "Missing 'text' field" ELSE "Missing text field"
    [] OTHER -> "Text must be a non-empty string"

Verdict(kind, what) == [kind |-> kind, what |-> what]

\* do_POST from the Content-Length header to the last check on `text`: "reject"
\* with the check that failed, "raise" with the exception that left the try body,
\* or "ok".
Validate(file, body) ==
  CASE body.kind = "badlength" -> Verdict("raise", "ValueError")
    [] body.kind = "absent" -> Verdict("reject", "nodata")
    [] body.kind = "undecodable" -> Verdict("raise", "UnicodeDecodeError")
    [] body.kind = "notjson" -> Verdict("reject", "json")
    [] HasText(body) = "TypeError" -> Verdict("raise", "TypeError")
    [] HasText(body) = "no" -> Verdict("reject", "missing")
    [] body.kind \in {"str", "arr"} -> Verdict("raise", "TypeError")
    [] body.kind # "obj_text_str" \/ IsBlank(body.text) -> Verdict("reject", "empty")
    [] OTHER -> Verdict("ok", "")

\* ------------------------------------------------------------- alternate scorer
\* sentiment_engine.EmotionEvaluator is imported by app.py and is not among the
\* sources: what analyze_text may do is taken from the interface description
\* (sentiment, confidence in [0,1], optional analysis method) and from the handler,
\* which tests the result for an "error" key and wraps the call in try/except.
EvaluatorOutcomes ==
  { [kind |-> "ok", sentiment |-> l, confidence |-> c, method |-> ""] :
      l \in {"positive", "Negative", "neutral", "mixed"}, c \in {0, 873, 1000} }
  \cup { [kind |-> "ok", sentiment |-> "POSITIVE", confidence |-> 873,
          method |-> "VADER"] }
  \cup { [kind |-> k, sentiment |-> "", confidence |-> 0, method |-> ""] :
           k \in {"error", "raise"} }

\* The dict evaluator.analyze_text(text) returns in outcome o.
EvaluatorAnalyzeText(o, text) ==
  CASE o.kind = "error" -> [error |-> "Analysis failed"]
    [] o.method = "" -> [sentiment |-> o.sentiment, confidence |-> o.confidence]
    [] OTHER -> [sentiment |-> o.sentiment, confidence |-> o.confidence,
                 analysis_method |-> o.method]

\* ------------------------------------------------------------- app.py scoring
\* message_map.get(sentiment, "Sentiment analyzed"), emoji_map.get(sentiment, ...)
MessageMapGet(sentiment) ==
  IF sentiment \in {"positive", "negative", "neutral"} THEN MessageOf(sentiment)
  ELSE "Sentiment analyzed"

EmojiMapGet(sentiment) ==
  IF sentiment \in {"positive", "negative", "neutral"} THEN EmojiOf(sentiment)
  ELSE "U+1F914"

\* do_POST, `if "error" not in result: ... else: formatted_result = result`
FormatForFrontend(result, text) ==
  IF "error" \notin DOMAIN result
  THEN LET sentiment == Lower(result.sentiment)
           confidence == result.confidence
       IN  [sentiment |-> sentiment,
            confidence |-> confidence,
            message |-> MessageMapGet(sentiment),
            emoji |-> EmojiMapGet(sentiment),
            scores |-> [confidence |-> confidence,
                        confidence_percentage |-> confidence],
            metadata |-> [text_length |-> TextLength(text),
                          word_count |-> Len(Split(text)),
                          analysis_timestamp |-> "now",
                          api_version |-> "1.0",
                          method |-> IF "analysis_method" \in DOMAIN result
                                     THEN result.analysis_method
                                     ELSE "EmotionEvaluator",
                          platform |-> "Vercel Serverless"]]
  ELSE result

\* d[key] = value on a dict.
SetItem(d, key, value) ==
  [k \in DOMAIN d \cup {key} |-> IF k = key THEN value ELSE d[k]]

NoResult == [none |-> TRUE]

Scored(raised, result, formatted) ==
  [raised |-> raised, result |-> result, formatted |-> formatted]

\* do_POST of app.py from `if evaluator:` to the value handed to
\* _send_json_response, or the exception raised on the way.
ScoreApp(ev, o, text) ==
  IF ev = "EmotionEvaluator"
  THEN IF o.kind = "raise" THEN Scored("RuntimeError", NoResult, NoResult)
       ELSE LET result == EvaluatorAnalyzeText(o, text)
            IN  Scored("", result, FormatForFrontend(result, text))
  ELSE LET result == AnalyzeText(AppAnalyzerInit, text)
       IN  IF "metadata" \in DOMAIN result
           THEN Scored("", result,
                       [result EXCEPT !.metadata =
                          SetItem(@, "platform", "Vercel Serverless")])
           ELSE Scored("KeyError", result, NoResult)

\* Mutant of AnalyzerAfter: the membership test removes the words it finds
\* (set.remove in place of `in`).
AnalyzerConsuming(self, text) ==
  LET words == { w \in AnalyzePositiveWords \cup AnalyzeNegativeWords :
                   \E i \in 1..Len(Split(LowerText(text))) :
                      Split(LowerText(text))[i] = w }
  IN  [positive_words |-> self.positive_words \ words,
       negative_words |-> self.negative_words \ words]

\* analyzer.analyze(text) of analyze.py assigns no attribute of self: the
\* module-level analyzer after the call.
AnalyzerAfter(self, text) == self

\* ------------------------------------------------------------- responses
StatusLine(code) == [ev |-> "head", code |-> code]
Payload(data) == [ev |-> "body", data |-> data]

\* _send_json_response / _send_json: the status line and headers go out, then
\* json.dumps and wfile.write, which raise when `io` is FALSE.
SendJson(wire, data, code, io) ==
  [wire |-> IF io THEN wire \o <<StatusLine(code), Payload(data)>>
            ELSE wire \o <<StatusLine(code)>>,
   raised |-> ~io]

\* _send_error_response of app.py; the {"error": ...} dict of analyze.py.
ErrorData(file, message, code) ==
  IF file = "app"
  THEN [error |-> message, timestamp |-> "now", status_code |-> code]
  ELSE [error |-> message]

\* The dict of the `except Exception as e` branch.
InternalError(file, e) ==
  IF file = "app"
  THEN [error |-> "Internal server error", message |-> e, timestamp |-> "now"]
  ELSE [error |-> "Internal server error", message |-> e]

Step(wire, pc, exc) == [wire |-> wire, pc |-> pc, exc |-> exc]

\* `except Exception as e:` of do_POST: the 500 response for exception e.
Except(file, wire, e, io) ==
  Step(SendJson(wire, InternalError(file, e), 500, io).wire, "failed", e)

\* A send inside the try body of do_POST.
SendInTry(file, wire, data, code, pc, io1, io2) ==
  LET sent == SendJson(wire, data, code, io1)
  IN  IF sent.raised THEN Except(file, sent.wire, "OSError", io2)
      ELSE Step(sent.wire, pc, "")

\* A send outside any try (do_GET, the 404 of app.py's do_POST).
SendBare(wire, data, code, pc, io) ==
  LET sent == SendJson(wire, data, code, io)
  IN  Step(sent.wire, IF sent.raised THEN "failed" ELSE pc,
           IF sent.raised THEN "OSError" ELSE "")

\* do_GET of app.py: the health dict.
HealthData(ev) ==
  [status |-> "healthy", timestamp |-> "now", version |-> "1.0",
   evaluator_available |-> (ev # "None"), platform |-> "Vercel Serverless"]

\* The do_* methods each handler class defines; BaseHTTPRequestHandler answers
\* 501 for a method without one.
Methods(file) ==
  IF file = "app" THEN {"OPTIONS", "GET", "POST"} ELSE {"OPTIONS", "POST"}

\* Mutant of RoutesPost: the path check of app.py's do_POST left out.
RoutesPostAny(file, path) == TRUE

\* do_POST of app.py checks the path before the body; analyze.py has no check.
RoutesPost(file, path) == file = "analyze" \/ PathOnly(path) \in AnalyzePaths

\* ------------------------------------------------------------- state
VARIABLES
  startup,    \* app.py's module load: "pending", "import_error", "init_raises", "ok"
  evaluator,  \* app.py's global: "unset", "None", "EmotionEvaluator"
  analyzer,   \* analyze.py's global SimpleSentimentAnalyzer
  req,        \* per request slot: the request being handled
  pc,         \* per slot: idle, received, validated, scored, responded, rejected, failed
  wire,       \* per slot: what the handler wrote, status lines and payloads in order
  result,     \* per slot: what the scorer returned
  formatted,  \* per slot: the value handed to the 200 response
  exc         \* per slot: the exception the handler ended with, "" for none

vars == <<startup, evaluator, analyzer, req, pc, wire, result, formatted, exc>>

Slots == 1..NumSlots
MainSlot == CHOOSE s \in Slots : \A t \in Slots : s <= t

NoRequest == Request("", "", "", NoBody)
Terminal == {"responded", "rejected", "failed"}

Init ==
  /\ startup = "pending"
  /\ evaluator = "unset"
  /\ analyzer = AnalyzerInit
  /\ req = [s \in Slots |-> NoRequest]
  /\ pc = [s \in Slots |-> "idle"]
  /\ wire = [s \in Slots |-> <<>>]
  /\ result = [s \in Slots |-> NoResult]
  /\ formatted = [s \in Slots |-> NoResult]
  /\ exc = [s \in Slots |-> ""]

\* The handler's step st in slot s.
Put(s, st) ==
  /\ wire' = [wire EXCEPT ![s] = st.wire]
  /\ pc' = [pc EXCEPT ![s] = st.pc]
  /\ exc' = [exc EXCEPT ![s] = st.exc]

\* app.py is loaded: the import at module level, then `try: evaluator =
\* EmotionEvaluator() except Exception: evaluator = None`.
EvaluatorAtStartup(outcome) ==
  CASE outcome = "ok" -> "EmotionEvaluator"
    [] outcome = "init_raises" -> "None"
    [] OTHER -> "unset"

StartupOutcomes == {"import_error", "init_raises", "ok"}

LoadApp(outcome) ==
  /\ startup = "pending"
  /\ startup' = outcome
  /\ evaluator' = EvaluatorAtStartup(outcome)
  /\ UNCHANGED <<analyzer, req, pc, wire, result, formatted, exc>>

\* app.py serves once its module has loaded.
AppRunning == evaluator # "unset"

\* A request arrives: main(request) builds a handler instance for it.
Receive(s, r) ==
  /\ pc[s] = "idle"
  /\ r.file = "app" => AppRunning
  /\ req' = [req EXCEPT ![s] = r]
  /\ pc' = [pc EXCEPT ![s] = "received"]
  /\ UNCHANGED <<startup, evaluator, analyzer, wire, result, formatted, exc>>

\* The handler has returned: the instance and its locals are discarded.
Finish(s) ==
  /\ pc[s] \in Terminal
  /\ req' = [req EXCEPT ![s] = NoRequest]
  /\ pc' = [pc EXCEPT ![s] = "idle"]
  /\ wire' = [wire EXCEPT ![s] = <<>>]
  /\ result' = [result EXCEPT ![s] = NoResult]
  /\ formatted' = [formatted EXCEPT ![s] = NoResult]
  /\ exc' = [exc EXCEPT ![s] = ""]
  /\ UNCHANGED <<startup, evaluator, analyzer>>

\* do_OPTIONS: status 200 and the CORS headers, no body.
DoOptions(s) ==
  /\ pc[s] = "received"
  /\ req[s].method = "OPTIONS"
  /\ Put(s, Step(<<StatusLine(200)>>, "responded", ""))
  /\ UNCHANGED <<startup, evaluator, analyzer, req, result, formatted>>

\* A method the handler class has no do_* for: the base class sends 501.
Unsupported(s) ==
  /\ pc[s] = "received"
  /\ req[s].method \notin Methods(req[s].file)
  /\ Put(s, Step(<<StatusLine(501), Payload([error |-> "Unsupported method"])>>,
                 "rejected", ""))
  /\ UNCHANGED <<startup, evaluator, analyzer, req, result, formatted>>

\* do_GET of app.py.
DoGet(s, io) ==
  /\ pc[s] = "received"
  /\ req[s].method = "GET"
  /\ "GET" \in Methods(req[s].file)
  /\ Put(s, IF PathOnly(req[s].path) \in HealthPaths
            THEN SendBare(<<>>, HealthData(evaluator), 200, "responded", io)
            ELSE SendBare(<<>>, ErrorData(req[s].file, "Endpoint not found", 404),
                          404, "rejected", io))
  /\ UNCHANGED <<startup, evaluator, analyzer, req, result, formatted>>

\* do_POST up to the last validation check.
DoPostValidate(s, io1, io2) ==
  /\ pc[s] = "received"
  /\ req[s].method = "POST"
  /\ LET r == req[s]
         v == Validate(r.file, r.body)
     IN  Put(s, CASE ~RoutesPost(r.file, r.path) ->
                       SendBare(<<>>, ErrorData(r.file, "Endpoint not found", 404),
                                404, "rejected", io1)
                  [] v.kind = "raise" -> Except(r.file, <<>>, v.what, io2)
                  [] v.kind = "reject" ->
                       SendInTry(r.file, <<>>, ErrorData(r.file, Msg(r.file, v.what), 400),
                                 400, "rejected", io1, io2)
                  [] OTHER -> Step(<<>>, "validated", ""))
  /\ UNCHANGED <<startup, evaluator, analyzer, req, result, formatted>>

\* do_POST from the scorer call to the value to send: app.py's evaluator or
\* fallback branch, analyze.py's analyzer.analyze(text).
Score(s, o, io) ==
  /\ pc[s] = "validated"
  /\ LET r == req[s]
         text == r.body.text
         sc == IF r.file = "app" THEN ScoreApp(evaluator, o, text)
               ELSE Scored("", Analyze(analyzer, text), Analyze(analyzer, text))
     IN  /\ result' = [result EXCEPT ![s] = sc.result]
         /\ formatted' = [formatted EXCEPT ![s] = sc.formatted]
         /\ analyzer' = IF r.file = "app" THEN analyzer ELSE AnalyzerAfter(analyzer, text)
         /\ Put(s, IF sc.raised # "" THEN Except(r.file, wire[s], sc.raised, io)
                   ELSE Step(wire[s], "scored", ""))
  /\ UNCHANGED <<startup, evaluator, req>>

\* do_POST's last statement: the 200 response.
Respond(s, io1, io2) ==
  /\ pc[s] = "scored"
  /\ Put(s, SendInTry(req[s].file, wire[s], formatted[s], 200, "responded", io1, io2))
  /\ UNCHANGED <<startup, evaluator, analyzer, req, result, formatted>>

\* The evaluator's outcomes where the request in slot s calls it, one otherwise.
Outcomes(s, all) ==
  IF req[s].file = "app" /\ evaluator = "EmotionEvaluator" THEN all
  ELSE {CHOOSE o \in all : o.kind = "raise"}

\* One request at a time, every input.
Next ==
  \/ \E outcome \in StartupOutcomes : LoadApp(outcome)
  \/ \E r \in Requests : Receive(MainSlot, r)
  \/ DoOptions(MainSlot)
  \/ Unsupported(MainSlot)
  \/ \E io \in BOOLEAN : DoGet(MainSlot, io)
  \/ \E io1, io2 \in BOOLEAN : DoPostValidate(MainSlot, io1, io2)
  \/ \E o \in Outcomes(MainSlot, EvaluatorOutcomes), io \in BOOLEAN :
        Score(MainSlot, o, io)
  \/ \E io1, io2 \in BOOLEAN : Respond(MainSlot, io1, io2)
  \/ Finish(MainSlot)

Spec == Init /\ [][Next]_vars

\* Requests in flight together, their steps interleaved.
ConcTexts == { <<"good">>, <<"sky">>, <<"bad", " ", "good", " ", "good">> }

ConcRequests ==
  { Request(f, "POST", "/analyze", Body("obj_text_str", t)) :
      f \in Files, t \in ConcTexts }
  \cup { Request("app", "GET", "/health", NoBody),
         Request("analyze", "POST", "/analyze", Body("notjson", <<>>)) }

ConcOutcomes ==
  { o \in EvaluatorOutcomes :
      o.kind # "ok" \/ (o.sentiment = "Negative" /\ o.confidence = 873 /\ o.method = "") }

NextConc ==
  \/ \E outcome \in StartupOutcomes : LoadApp(outcome)
  \/ \E s \in Slots, r \in ConcRequests : Receive(s, r)
  \/ \E s \in Slots, io \in BOOLEAN : DoGet(s, io)
  \/ \E s \in Slots, io1, io2 \in BOOLEAN : DoPostValidate(s, io1, io2)
  \/ \E s \in Slots, io \in BOOLEAN :
        \E o \in Outcomes(s, ConcOutcomes) : Score(s, o, io)
  \/ \E s \in Slots, io1, io2 \in BOOLEAN : Respond(s, io1, io2)
  \/ \E s \in Slots : Finish(s)

SpecConc == Init /\ [][NextConc]_vars

\* ------------------------------------------------------------- reading a state
IsStatus(e) == e.ev = "head"
IsPayload(e) == e.ev = "body"

\* The status lines and the payloads written in slot s, in order.
StatusLines(s) == SelectSeq(wire[s], IsStatus)
Payloads(s) == SelectSeq(wire[s], IsPayload)

Done(s) == pc[s] \in Terminal

\* The write of a response body failed somewhere in slot s: a status line went
\* out without its payload.
WriteFailed(s) ==
  req[s].method # "OPTIONS" /\ Len(Payloads(s)) < Len(StatusLines(s))

\* Slot s holds a value the baseline lexicon scorer returned.
BaselineScored(s) ==
  /\ "none" \notin DOMAIN result[s]
  /\ req[s].file = "analyze" \/ evaluator = "None"

\* Slot s holds a value the alternate scorer returned.
EvaluatorScored(s) ==
  /\ "none" \notin DOMAIN result[s]
  /\ req[s].file = "app" /\ evaluator = "EmotionEvaluator"

\* The lexicon a file's baseline scorer is constructed with.
LexiconOf(file) == IF file = "app" THEN AppAnalyzerInit ELSE AnalyzerInit

\* Tokens and lexicon hits of the text in slot s.
TokensOf(s) == Split(LowerText(req[s].body.text))
PosHits(s) == CountIn(TokensOf(s), LexiconOf(req[s].file).positive_words)
NegHits(s) == CountIn(TokensOf(s), LexiconOf(req[s].file).negative_words)

\* A POST to the analysis path whose body is {"text": <non-blank string>}.
ValidPost(r) ==
  /\ r.method = "POST"
  /\ PathOnly(r.path) \in AnalyzePaths
  /\ r.body.kind = "obj_text_str"
  /\ Strip(r.body.text) # <<>>

ResultKeys == {"sentiment", "confidence", "message", "emoji", "metadata"}

\* ------------------------------------------------------------- C1
\* C1: every valid POST to the analysis path ends Responded with one 200 response
\* whose body has sentiment, confidence, message, emoji and metadata, whichever
\* scorer is configured and however many lexicon hits the text has (no failed
\* write, and an alternate scorer that answers as its interface says).
C1_ValidPostResponds ==
  \A s \in Slots :
    (/\ Done(s)
     /\ ValidPost(req[s])
     /\ ~WriteFailed(s)
     /\ exc[s] # "RuntimeError"
     /\ "error" \notin DOMAIN result[s])
    => /\ pc[s] = "responded"
       /\ StatusLines(s) = <<StatusLine(200)>>
       /\ Len(Payloads(s)) = 1
       /\ ResultKeys \subseteq DOMAIN Payloads(s)[1].data

\* ------------------------------------------------------------- C2
\* The first check of the claim's order that the body fails: (a) present and
\* non-empty, (b) a JSON object, (c) has key "text", (d) a non-blank string.
FirstFailedCheck(body) ==
  CASE body.kind = "absent" -> "nodata"
    [] body.kind \in {"undecodable", "notjson", "num", "null", "bool", "str", "arr"}
         -> "json"
    [] body.kind \in {"obj_empty", "obj_other"} -> "missing"
    [] body.kind \in {"obj_text_num", "obj_text_null"} -> "empty"
    [] body.kind = "obj_text_str" /\ Strip(body.text) = <<>> -> "empty"
    [] OTHER -> "none"

\* C2: a POST whose body fails a validation check ends Rejected with one 400
\* response carrying the message of the first failed check, and the scorer is not
\* invoked; a body that is not a JSON object is never answered 500 or 200.
C2_ValidationOrder ==
  \A s \in Slots :
    (/\ Done(s)
     /\ req[s].method = "POST"
     /\ RoutesPost(req[s].file, req[s].path)
     /\ req[s].body.kind # "badlength"
     /\ FirstFailedCheck(req[s].body) # "none"
     /\ ~WriteFailed(s))
    => /\ pc[s] = "rejected"
       /\ wire[s] = <<StatusLine(400),
                      Payload(ErrorData(req[s].file,
                                        Msg(req[s].file, FirstFailedCheck(req[s].body)),
                                        400))>>
       /\ "none" \in DOMAIN result[s]

\* ------------------------------------------------------------- C3
\* C3: a request that reached the scorer and was sent a payload got exactly one
\* response: one status line, never a second one, and never an error payload
\* under status 200.
C3_OneResponse ==
  \A s \in Slots :
    (Done(s) /\ "none" \notin DOMAIN result[s] /\ Len(Payloads(s)) = 1)
    => /\ Len(StatusLines(s)) = 1
       /\ \A i \in 1..Len(Payloads(s)) :
            ~(StatusLines(s)[1].code = 200 /\ "error" \in DOMAIN Payloads(s)[i].data)

\* ------------------------------------------------------------- C4
\* C4: when the alternate scorer is unavailable at startup (import failed or the
\* constructor raised), app.py still serves, its valid POSTs are scored by the
\* baseline scorer, and the health check reports the alternate unavailable.
C4_StartsWithoutEvaluator ==
  startup \in {"import_error", "init_raises"}
  => /\ AppRunning
     /\ \A s \in Slots :
          (req[s].file = "app" /\ "none" \notin DOMAIN result[s])
          => result[s] = AnalyzeText(AppAnalyzerInit, req[s].body.text)
     /\ \A s \in Slots :
          (req[s].file = "app" /\ req[s].method = "GET" /\ pc[s] = "responded")
          => Payloads(s)[1].data.evaluator_available = FALSE

\* ------------------------------------------------------------- C5
\* The method/path combinations the claim lets through.
Accepted(r) ==
  \/ r.method = "OPTIONS"
  \/ r.method = "POST" /\ PathOnly(r.path) \in AnalyzePaths
  \/ r.method = "GET" /\ PathOnly(r.path) \in HealthPaths

Min(a, b) == IF a <= b THEN a ELSE b
Abs(a) == IF a >= 0 THEN a ELSE -a

\* Slot s ended with a 200 analysis response.
Success(s) ==
  /\ pc[s] = "responded"
  /\ req[s].method = "POST"
  /\ Len(Payloads(s)) = 1
  /\ "confidence" \in DOMAIN Payloads(s)[1].data

ResponseConf(s) == Payloads(s)[1].data.confidence

\* C6 as stated: the confidence of a success response is in [0, 1], and with the
\* baseline scorer it is 0.0, 0.5 or exactly min(1, (p + n)/wordCount + 0.3).
C6_ExactConfidence ==
  \A s \in Slots :
    Success(s)
    => /\ ResponseConf(s) \in 0..1000
       /\ BaselineScored(s)
          => LET t == PosHits(s) + NegHits(s)
                 w == Len(TokensOf(s))
             IN  \/ ResponseConf(s) \in {0, 500}
                 \/ 10 * w * ResponseConf(s) = 1000 * Min(10 * w, 10 * t + 3 * w)

\* C6 amended: the confidence of a success response is in [0, 1]; with the baseline
\* scorer it is 0.5 when no token is in the lexicon and otherwise
\* min(1, (p + n)/wordCount + 0.3) rounded to three decimals (within 0.0005 of it);
\* with the alternate scorer it is the scorer's own value, unchanged.
C6_ConfidenceRange ==
  \A s \in Slots :
    Success(s)
    => /\ ResponseConf(s) \in 0..1000
       /\ BaselineScored(s)
          => LET t == PosHits(s) + NegHits(s)
                 w == Len(TokensOf(s))
             IN  IF t = 0 THEN ResponseConf(s) = 500
                 ELSE Abs(10 * w * ResponseConf(s)
                          - 1000 * Min(10 * w, 10 * t + 3 * w)) <= 5 * w
       /\ EvaluatorScored(s) => ResponseConf(s) = result[s].confidence

\* A baseline success response whose unclamped value (p + n)/w + 0.3 exceeds 1.
C6_Witness ==
  \E s \in Slots :
    /\ Success(s)
    /\ BaselineScored(s)
    /\ 10 * (PosHits(s) + NegHits(s)) + 3 * Len(TokensOf(s)) > 10 * Len(TokensOf(s))
    /\ ResponseConf(s) = 1000

\* ------------------------------------------------------------- C7
\* C7: with at least one lexicon hit, p positive and n negative hits among w tokens,
\* the baseline scorer answers positive exactly when (p - n)/w > 0.05, negative
\* exactly when (p - n)/w < -0.05 and neutral otherwise, 0.05 and -0.05 themselves
\* being neutral, with the message and emoji of that label.
C7_Thresholds ==
  \A s \in Slots :
    (BaselineScored(s) /\ PosHits(s) + NegHits(s) > 0)
    => LET d == PosHits(s) - NegHits(s)
           w == Len(TokensOf(s))
           r == result[s]
       IN  /\ r.sentiment = "positive" <=> 20 * d > w
           /\ r.sentiment = "negative" <=> 20 * d < -w
           /\ r.sentiment = "neutral" <=> (20 * d <= w /\ 20 * d >= -w)
           /\ r.sentiment = "positive"
              => (r.message = "Positive sentiment detected!" /\ r.emoji = "U+1F60A")
           /\ r.sentiment = "negative"
              => (r.message = "Negative sentiment detected!" /\ r.emoji = "U+1F61E")
           /\ r.sentiment = "neutral"
              => (r.message = "Neutral sentiment detected" /\ r.emoji = "U+1F610")

\* A text scoring exactly 0.05 (one positive hit in twenty tokens) was labelled neutral.
C7_Witness ==
  \E s \in Slots :
    /\ BaselineScored(s)
    /\ PosHits(s) = 1 /\ NegHits(s) = 0 /\ Len(TokensOf(s)) = 20
    /\ result[s].sentiment = "neutral"

\* ------------------------------------------------------------- C8
\* C8: for a non-blank text none of whose lowercased whitespace-delimited tokens is
\* in either lexicon set, the scorer's result is neutral with confidence 0.5.
C8_ZeroHitsNeutral ==
  \A s \in Slots :
    (/\ BaselineScored(s)
     /\ Strip(req[s].body.text) # <<>>
     /\ \A i \in 1..Len(TokensOf(s)) :
          TokensOf(s)[i] \notin LexiconOf(req[s].file).positive_words
                                  \cup LexiconOf(req[s].file).negative_words)
    => result[s].sentiment = "neutral" /\ result[s].confidence = 500

\* "The sky is blue today" was scored neutral at 0.5.
C8_Witness ==
  \E s \in Slots :
    /\ BaselineScored(s)
    /\ req[s].body.text = TextSky
    /\ result[s].sentiment = "neutral" /\ result[s].confidence = 500

\* ------------------------------------------------------------- C9
\* C9: every analyzed text's result carries metadata whose word count is the number
\* of whitespace-delimited tokens of the lowercased text, and positiveWords +
\* negativeWords <= wordCount, the two lexicon sets being disjoint.
C9_MetadataCounts ==
  /\ AnalyzePositiveWords \cap AnalyzeNegativeWords = {}
  /\ AppPositiveWords \cap AppNegativeWords = {}
  /\ \A s \in Slots :
       BaselineScored(s)
       => /\ "metadata" \in DOMAIN result[s]
          /\ {"word_count", "positive_words", "negative_words"}
               \subseteq DOMAIN result[s].metadata
          /\ result[s].metadata.word_count = Len(TokensOf(s))
          /\ result[s].metadata.positive_words + result[s].metadata.negative_words
               <= result[s].metadata.word_count

\* ------------------------------------------------------------- C10
\* What the baseline scorer returns for the request in slot s when it runs alone.
AloneResult(s) ==
  IF req[s].file = "app" THEN AnalyzeText(AppAnalyzerInit, req[s].body.text)
  ELSE Analyze(AnalyzerInit, req[s].body.text)

AloneResults ==
  \A s \in Slots :
    BaselineScored(s)
    => /\ result[s] = AloneResult(s)
       /\ Success(s)
          => /\ Payloads(s)[1].data.sentiment = AloneResult(s).sentiment
             /\ Payloads(s)[1].data.confidence = AloneResult(s).confidence

====
